---- MODULE Spec2Model ----
(***************************************************************************)
(* Hyperlane-style Mailbox, InterchainToken and InterchainTokenRouter      *)
(* contracts (src/contracts/*.py) as one state machine.                    *)
(*                                                                         *)
(* Every contract is one variable holding its storage; every exported      *)
(* function is an operator from (storage of all contracts, ctx.caller,     *)
(* arguments) to a result [err, ret, st, events]; every action is one      *)
(* top-level transaction: the result's storage is committed when the call  *)
(* returns and discarded when it raises.                                   *)
(*                                                                         *)
(* Python str values are sequences of one-character strings, so that       *)
(* formatting, splitting and encoding are computed, not assumed.           *)
(***************************************************************************)
EXTENDS Integers, Sequences, FiniteSets, TLC

VARIABLES mailbox, currency, token, router, dispatched, processed, minted

vars == <<mailbox, currency, token, router, dispatched, processed, minted>>

(***************************************************************************)
(* Bounds of the model.                                                    *)
(***************************************************************************)
\* dispatch is explored while nonce < MaxNonce
MaxNonce == 2
\* block_num is 0 or MaxHeight
MaxHeight == 1
\* router.process is explored while fewer than MaxMints mints were made
MaxMints == 2
\* dispatch fees and ledger approvals range up to MaxFee
MaxFee == 2

(***************************************************************************)
(* Python values.                                                          *)
(***************************************************************************)
None == <<"None">>
PyInt(n) == <<"int", n>>
PyStr(s) == <<"str", s>>

NoErr == ""

Digits == <<"0", "1", "2", "3", "4", "5", "6", "7", "8", "9">>

HexDigits == <<"0", "1", "2", "3", "4", "5", "6", "7", "8", "9", "a", "b", "c", "d", "e", "f">>

\* the printable ASCII characters, code points 32..126 in order (the double
\* quote, backslash and backtick, which no modelled string holds, by name)
Printable == <<" ", "!", "dquote", "#", "$", "%", "&", "'", "(", ")", "*", "+", ",", "-", ".", "/", "0", "1", "2", "3", "4", "5", "6", "7", "8", "9", ":", ";", "<", "=", ">", "?", "@", "A", "B", "C", "D", "E", "F", "G", "H", "I", "J", "K", "L", "M", "N", "O", "P", "Q", "R", "S", "T", "U", "V", "W", "X", "Y", "Z", "[", "bslash", "]", "^", "_", "btick", "a", "b", "c", "d", "e", "f", "g", "h", "i", "j", "k", "l", "m", "n", "o", "p", "q", "r", "s", "t", "u", "v", "w", "x", "y", "z", "{", "|", "}", "~">>

\* ord(c) of each printable ASCII character
Ord == [c \in {Printable[i] : i \in 1..Len(Printable)} |-> 31 + (CHOOSE i \in 1..Len(Printable) : Printable[i] = c)]

\* str(n) of a natural number
RECURSIVE NatToStr(_)
NatToStr(n) == IF n < 10 THEN <<Digits[n + 1]>> ELSE NatToStr(n \div 10) \o <<Digits[(n % 10) + 1]>>

\* str(n) / f"{n}" of an int
IntToStr(n) == IF n < 0 THEN <<"-">> \o NatToStr(0 - n) ELSE NatToStr(n)

IsDigit(c) == \E i \in 1..Len(Digits) : Digits[i] = c

DigitVal(c) == (CHOOSE i \in 1..Len(Digits) : Digits[i] = c) - 1

RECURSIVE DigitsToNat(_)
DigitsToNat(s) == IF Len(s) = 0 THEN 0 ELSE 10 * DigitsToNat(SubSeq(s, 1, Len(s) - 1)) + DigitVal(s[Len(s)])

\* s.strip() over the printable alphabet, whose only whitespace is the blank
RECURSIVE LStrip(_)
LStrip(s) == IF Len(s) > 0 /\ s[1] = " " THEN LStrip(Tail(s)) ELSE s

RECURSIVE RStrip(_)
RStrip(s) == IF Len(s) > 0 /\ s[Len(s)] = " " THEN RStrip(SubSeq(s, 1, Len(s) - 1)) ELSE s

Strip(s) == RStrip(LStrip(s))

\* a numeral without its sign
Unsigned(s) == IF Len(s) > 0 /\ s[1] \in {"-", "+"} THEN Tail(s) ELSE s

IsDigits(s) == Len(s) > 0 /\ \A i \in 1..Len(s) : IsDigit(s[i])

\* whether int(s) accepts s: blanks around, an optional sign, then decimal
\* digits that single underscores may separate
IsIntStr(s) == LET d == Unsigned(Strip(s)) IN Len(d) > 0 /\ IsDigit(d[1]) /\ IsDigit(d[Len(d)]) /\ \A i \in 1..Len(d) : IsDigit(d[i]) \/ (d[i] = "_" /\ i > 1 /\ IsDigit(d[i - 1]))

\* the value int(s) of an accepted s
ParseInt(s) == LET t == Strip(s) IN IF t[1] = "-" THEN 0 - DigitsToNat(SelectSeq(t, IsDigit)) ELSE DigitsToNat(SelectSeq(t, IsDigit))

(***************************************************************************)
(* Numbers.  A Python int is a TLA+ integer, and so is a finite decimal    *)
(* with exponent 0 other than -0: the two print alike and add, subtract    *)
(* and compare alike.  Any other finite decimal is <<"dec", sign, coef,    *)
(* exp>>, the fields of Decimal.as_tuple() with the digits read as a       *)
(* number: Decimal('1.50') is <<"dec", 0, 150, -2>>, Decimal('1E+3') is    *)
(* <<"dec", 0, 1, 3>>, Decimal('-0') is <<"dec", 1, 0, 0>>.  A NaN is      *)
(* <<"NaN", sign, payload>> or <<"sNaN", sign, payload>> with payload 0    *)
(* when it has none; the infinities are Infinity and NegInfinity.          *)
(* Arithmetic is exact: coefficients stay far below the context's 28       *)
(* digits.                                                                 *)
(***************************************************************************)
NaN == <<"NaN", 0, 0>>
SNaN == <<"sNaN", 0, 0>>
Infinity == <<"Infinity">>
NegInfinity == <<"-Infinity">>

\* the integers are told from the other numbers by their printed form; the
\* integers of the model lie within IntSpan of zero
IntSpan == 1000

IntImages == {ToString(n) : n \in (0 - IntSpan)..IntSpan}

IsInt(x) == ToString(x) \in IntImages

IsNaN(x) == ~IsInt(x) /\ x[1] \in {"NaN", "sNaN"}

IsInfinite(x) == ~IsInt(x) /\ x[1] \in {"Infinity", "-Infinity"}

RECURSIVE Pow10(_)
Pow10(n) == IF n = 0 THEN 1 ELSE 10 * Pow10(n - 1)

\* the number of digits of a coefficient
RECURSIVE NumDigits(_)
NumDigits(n) == IF n < 10 THEN 1 ELSE 1 + NumDigits(n \div 10)

\* the finite decimal with this sign, coefficient and exponent
Dec(sign, coef, exp) == IF exp = 0 /\ ~(sign = 1 /\ coef = 0) THEN (IF sign = 1 THEN 0 - coef ELSE coef) ELSE <<"dec", sign, coef, exp>>

\* the exponent of a finite number, and its value in units of 10^e
Scale(x) == IF IsInt(x) THEN 0 ELSE x[4]

Coef(x, e) == IF IsInt(x) THEN x * Pow10(0 - e) ELSE (IF x[2] = 1 THEN 0 - x[3] ELSE x[3]) * Pow10(x[4] - e)

\* a.copy_negate()
NumNeg(a) == IF IsInt(a) THEN (IF a = 0 THEN <<"dec", 1, 0, 0>> ELSE 0 - a) ELSE IF a[1] = "Infinity" THEN NegInfinity ELSE IF a[1] = "-Infinity" THEN Infinity ELSE IF a[1] = "dec" THEN Dec(1 - a[2], a[3], a[4]) ELSE <<a[1], 1 - a[2], a[3]>>

\* whether a + b raises decimal.InvalidOperation: a signaling NaN, or
\* infinities of opposite sign
AddRaises(a, b) == IF IsInt(a) /\ IsInt(b) THEN FALSE ELSE (~IsInt(a) /\ a[1] = "sNaN") \/ (~IsInt(b) /\ b[1] = "sNaN") \/ (IsInfinite(a) /\ IsInfinite(b) /\ a # b)

\* a + b: a NaN operand is the result, the first of two; a finite sum has the
\* smaller of the two exponents, and a zero sum is -0 only when both are
NumAdd(a, b) == IF IsInt(a) /\ IsInt(b) THEN a + b ELSE IF IsNaN(a) THEN a ELSE IF IsNaN(b) THEN b ELSE IF IsInfinite(a) THEN a ELSE IF IsInfinite(b) THEN b ELSE LET e == IF Scale(a) < Scale(b) THEN Scale(a) ELSE Scale(b) sum == Coef(a, e) + Coef(b, e) bothNegZero == ~IsInt(a) /\ ~IsInt(b) /\ a[2] = 1 /\ b[2] = 1 IN IF sum < 0 THEN Dec(1, 0 - sum, e) ELSE IF sum = 0 /\ bothNegZero THEN Dec(1, 0, e) ELSE Dec(0, sum, e)

\* whether a - b raises, and a - b
SubRaises(a, b) == AddRaises(a, NumNeg(b))

NumSub(a, b) == IF IsInt(a) /\ IsInt(b) THEN a - b ELSE IF IsNaN(a) THEN a ELSE IF IsNaN(b) THEN b ELSE NumAdd(a, NumNeg(b))

\* whether an ordering comparison of a and b raises decimal.InvalidOperation
Unordered(a, b) == IF IsInt(a) /\ IsInt(b) THEN FALSE ELSE IsNaN(a) \/ IsNaN(b)

\* a < b, for a and b that can be ordered: by sign, then by the position of
\* the leading digit, then by the digits at the smaller exponent
NumLess(a, b) == IF IsInt(a) /\ IsInt(b) THEN a < b ELSE IF IsInfinite(a) THEN a[1] = "-Infinity" /\ ~(IsInfinite(b) /\ b[1] = "-Infinity") ELSE IF IsInfinite(b) THEN b[1] = "Infinity" ELSE LET Abs(x) == IF IsInt(x) THEN (IF x < 0 THEN 0 - x ELSE x) ELSE x[3] Sgn(x) == IF Abs(x) = 0 THEN 0 ELSE IF IsInt(x) THEN (IF x < 0 THEN 0 - 1 ELSE 1) ELSE 1 - 2 * x[2] Adj(x) == Scale(x) + NumDigits(Abs(x)) e == IF Scale(a) < Scale(b) THEN Scale(a) ELSE Scale(b) IN IF Sgn(a) # Sgn(b) THEN Sgn(a) < Sgn(b) ELSE IF Sgn(a) = 0 THEN FALSE ELSE IF Adj(a) # Adj(b) THEN (IF Sgn(a) = 1 THEN Adj(a) < Adj(b) ELSE Adj(a) > Adj(b)) ELSE Coef(a, e) < Coef(b, e)

InvalidOperation == "decimal.InvalidOperation"

\* n % 10^k printed with k digits
RECURSIVE ZeroPad(_, _)
ZeroPad(n, k) == IF k = 0 THEN "" ELSE ZeroPad(n \div 10, k - 1) \o ToString(n % 10)

\* str(x) / '{}'.format(x) of a number.  A finite decimal prints its digits
\* as it holds them: with the point dotplace digits in when the exponent is
\* at most 0 and the number is not below 10^-6, else as d.ddd and E+n / E-n
NumToString(x) == IF IsInt(x) THEN ToString(x) ELSE IF x[1] \in {"Infinity", "-Infinity"} THEN x[1] ELSE IF x[1] # "dec" THEN (IF x[2] = 1 THEN "-" ELSE "") \o x[1] \o (IF x[3] = 0 THEN "" ELSE ToString(x[3])) ELSE LET n == NumDigits(x[3]) leftdigits == x[4] + n dotplace == IF x[4] <= 0 /\ leftdigits > 0 - 6 THEN leftdigits ELSE 1 intpart == IF dotplace <= 0 THEN "0" ELSE ToString(x[3] \div Pow10(n - dotplace)) fracpart == IF dotplace <= 0 THEN "." \o ZeroPad(x[3], n - dotplace) ELSE IF dotplace >= n THEN "" ELSE "." \o ZeroPad(x[3], n - dotplace) e == leftdigits - dotplace IN (IF x[2] = 1 THEN "-" ELSE "") \o intpart \o fracpart \o (IF e = 0 THEN "" ELSE IF e > 0 THEN "E+" \o ToString(e) ELSE "E-" \o ToString(0 - e))

\* s.encode('utf-8').hex() of an ASCII string: two hex digits per character
Hex(s) == [i \in 1..(2 * Len(s)) |-> IF i % 2 = 1 THEN HexDigits[(Ord[s[(i + 1) \div 2]] \div 16) + 1] ELSE HexDigits[(Ord[s[i \div 2]] % 16) + 1]]

\* hashlib.sha256(hex_str): the digest of the bytes hex_str spells.  The
\* digest is idealised as collision-free: it is rendered as a tag followed
\* by its preimage, so two digests are equal exactly when the inputs are.
Sha256(h) == <<"s", "h", "a", "2", "5", "6", ":">> \o h

\* sep.join(parts)
RECURSIVE Join(_, _)
Join(parts, sep) == IF Len(parts) = 0 THEN <<>> ELSE IF Len(parts) = 1 THEN parts[1] ELSE parts[1] \o sep \o Join(Tail(parts), sep)

\* s.split(sep) for a one-character sep
RECURSIVE SplitFrom(_, _, _)
SplitFrom(s, sep, cur) == IF Len(s) = 0 THEN <<cur>> ELSE IF s[1] = sep THEN <<cur>> \o SplitFrom(Tail(s), sep, <<>>) ELSE SplitFrom(Tail(s), sep, Append(cur, s[1]))

Split(s, sep) == SplitFrom(s, sep, <<>>)

\* Hash[key] with the Hash's default_value
HashGet(h, k, default) == IF k \in DOMAIN h THEN h[k] ELSE default

\* Hash[key] = value
HashSet(h, k, v) == [x \in (DOMAIN h) \cup {k} |-> IF x = k THEN v ELSE h[x]]

\* lower case of a character
Lower(c) == IF Ord[c] \in 65..90 THEN Printable[Ord[c] + 1] ELSE c

\* what decimal() reads of s: blanks around stripped, underscores dropped,
\* letters in lower case
DecimalText(s) == LET NotUnderscore(c) == c # "_" t == SelectSeq(Strip(s), NotUnderscore) IN [i \in 1..Len(t) |-> Lower(t[i])]

IsNaNText(b, tag) == Len(b) >= Len(tag) /\ SubSeq(b, 1, Len(tag)) = tag /\ \A i \in (Len(tag) + 1)..Len(b) : IsDigit(b[i])

IsInfinityText(b) == b \in {<<"i", "n", "f">>, <<"i", "n", "f", "i", "n", "i", "t", "y">>}

\* digits with an optional point and an optional exponent, at least one digit
IsFiniteText(b) == LET p == Split(b, "e") m == Split(p[1], ".") IN Len(p) <= 2 /\ Len(m) <= 2 /\ (\A i \in 1..Len(m) : \A n \in 1..Len(m[i]) : IsDigit(m[i][n])) /\ (\E i \in 1..Len(m) : Len(m[i]) > 0) /\ (Len(p) = 2 => IsDigits(Unsigned(p[2])))

\* the coefficient and the exponent that the text spells
FiniteValue(b) == LET p == Split(b, "e") m == Split(p[1], ".") frac == IF Len(m) = 2 THEN m[2] ELSE <<>> IN <<DigitsToNat(m[1] \o frac), (IF Len(p) = 2 THEN ParseInt(p[2]) ELSE 0) - Len(frac)>>

\* whether decimal(s) accepts s
IsDecimalStr(s) == LET b == Unsigned(DecimalText(s)) IN IsFiniteText(b) \/ IsInfinityText(b) \/ IsNaNText(b, <<"n", "a", "n">>) \/ IsNaNText(b, <<"s", "n", "a", "n">>)

\* the value decimal(s) of an accepted s
ParseDecimal(s) == LET t == DecimalText(s) b == Unsigned(t) sign == IF t[1] = "-" THEN 1 ELSE 0 IN IF IsFiniteText(b) THEN Dec(sign, FiniteValue(b)[1], FiniteValue(b)[2]) ELSE IF IsInfinityText(b) THEN (IF sign = 1 THEN NegInfinity ELSE Infinity) ELSE IF IsNaNText(b, <<"n", "a", "n">>) THEN <<"NaN", sign, DigitsToNat(SubSeq(b, 4, Len(b)))>> ELSE <<"sNaN", sign, DigitsToNat(SubSeq(b, 5, Len(b)))>>

(***************************************************************************)
(* Names: accounts that sign transactions and the names the contracts are  *)
(* deployed under.                                                         *)
(***************************************************************************)
SYS == <<"s", "y", "s">>
USER1 == <<"u", "s", "e", "r", "1">>
USER2 == <<"u", "s", "e", "r", "2">>
MAILBOX == <<"c", "o", "n", "_", "m", "a", "i", "l", "b", "o", "x">>
TOKEN == <<"c", "o", "n", "_", "i", "n", "t", "e", "r", "c", "h", "a", "i", "n", "_", "t", "o", "k", "e", "n">>
ROUTER == <<"c", "o", "n", "_", "i", "n", "t", "e", "r", "c", "h", "a", "i", "n", "_", "r", "o", "u", "t", "e", "r">>
ROUTER1 == <<"r", "o", "u", "t", "e", "r", "1">>
BRIDGE_BURNED == <<"B", "R", "I", "D", "G", "E", "_", "B", "U", "R", "N", "E", "D">>
EmptyStr == <<>>

\* 517164068468, the Mailbox's localDomain, as the numeral str() renders: the
\* value is beyond the model checker's integers and is only ever formatted
XIAN_DOMAIN == <<"5", "1", "7", "1", "6", "4", "0", "6", "8", "4", "6", "8">>

\* the accounts that sign transactions
Users == {SYS, USER1, USER2}

(***************************************************************************)
(* Results of a call.                                                      *)
(***************************************************************************)
\* the call returns ret, having written st and emitted events
Ok(S, ret, events) == [err |-> NoErr, ret |-> ret, st |-> S, events |-> events]

\* the call raises msg, having written st so far
Fail(S, msg) == [err |-> msg, ret |-> None, st |-> S, events |-> <<>>]

\* the storage of all contracts, as a handler receives it
Cur == [mailbox |-> mailbox, currency |-> currency, token |-> token, router |-> router]

(***************************************************************************)
(* currency: the external fee ledger (spec section 6).                     *)
(***************************************************************************)
CurrencyBalanceOf(S, account) == HashGet(S.currency.balances, <<account>>, 0)

CurrencyAllowance(S, owner, spender) == HashGet(S.currency.approvals, <<owner, spender>>, 0)

\* approve(amount, to): the caller lets `to` spend amount of the caller's balance
CurrencyApprove(S, caller, amount, to) == IF ~(amount >= 0) THEN Fail(S, "Cannot approve negative balances!") ELSE Ok([S EXCEPT !.currency.approvals = HashSet(@, <<caller, to>>, amount)], None, <<>>)

\* transfer_from(amount, to, main_account): debits main_account's allowance to
\* the caller and its balance, credits `to`
CurrencyTransferFrom(S, caller, amount, to, main_account) ==
    IF ~(amount > 0) THEN Fail(S, "Cannot send negative balances!")
    ELSE IF ~(CurrencyAllowance(S, main_account, caller) >= amount) THEN Fail(S, "Not enough coins approved to send!")
    ELSE IF ~(CurrencyBalanceOf(S, main_account) >= amount) THEN Fail(S, "Not enough coins to send!")
    ELSE LET S1 == [S EXCEPT !.currency.approvals = HashSet(@, <<main_account, caller>>, CurrencyAllowance(S, main_account, caller) - amount)]
             S2 == [S1 EXCEPT !.currency.balances = HashSet(@, <<main_account>>, CurrencyBalanceOf(S1, main_account) - amount)]
             S3 == [S2 EXCEPT !.currency.balances = HashSet(@, <<to>>, CurrencyBalanceOf(S2, to) + amount)]
         IN Ok(S3, None, <<>>)

(***************************************************************************)
(* mailbox.py                                                              *)
(***************************************************************************)
VERSION == 1

DefaultDelivery == [processor |-> None, blockNumber |-> 0]

\* seed(), run by the deployer
MailboxSeed(caller) == [localDomain |-> XIAN_DOMAIN, nonce |-> 0, latestDispatchedId |-> PyInt(0), defaultIsm |-> "defaultIsm", defaultHook |-> "defaultHook", requiredHook |-> "requiredHook", dispatchFee |-> 0, owner |-> caller, deliveries |-> <<>>]

\* only_owner() as it would be if the check were left out
MailboxOnlyOwner_AnyCaller(S, caller) == TRUE

\* only_owner() passes
MailboxOnlyOwner(S, caller) == caller = S.mailbox.owner

OwnerOnlyMsg == "Only the contract owner can call this method."

\* build_message as it would be with sender and recipient exchanged
BuildMessage_SwapsParties(S, origin_domain, sender, destination_domain, recipient, body) == [version |-> VERSION, nonce |-> S.mailbox.nonce, originDomain |-> origin_domain, sender |-> recipient, destinationDomain |-> destination_domain, recipient |-> sender, body |-> body]

BuildMessage(S, origin_domain, sender, destination_domain, recipient, body) == [version |-> VERSION, nonce |-> S.mailbox.nonce, originDomain |-> origin_domain, sender |-> sender, destinationDomain |-> destination_domain, recipient |-> recipient, body |-> body]

\* m_str as it would be with the nonce left out
MessageString_NoNonce(message) == Join(<<IntToStr(message.version), message.originDomain, message.sender, IntToStr(message.destinationDomain), message.recipient, message.body>>, <<"-">>)

\* the canonical string m_str of a message: the seven fields joined by '-'
MessageString(message) == Join(<<IntToStr(message.version), IntToStr(message.nonce), message.originDomain, message.sender, IntToStr(message.destinationDomain), message.recipient, message.body>>, <<"-">>)

GenerateMessageId(message) == Sha256(Hex(MessageString(message)))

SetDefaultIsm(S, caller, module) == IF ~MailboxOnlyOwner(S, caller) THEN Fail(S, OwnerOnlyMsg) ELSE Ok([S EXCEPT !.mailbox.defaultIsm = module], None, <<[event |-> "DefaultIsmSet", module |-> module]>>)

SetDefaultHook(S, caller, hook) == IF ~MailboxOnlyOwner(S, caller) THEN Fail(S, OwnerOnlyMsg) ELSE Ok([S EXCEPT !.mailbox.defaultHook = hook], None, <<[event |-> "DefaultHookSet", hook |-> hook]>>)

SetRequiredHook(S, caller, hook) == IF ~MailboxOnlyOwner(S, caller) THEN Fail(S, OwnerOnlyMsg) ELSE Ok([S EXCEPT !.mailbox.requiredHook = hook], None, <<[event |-> "RequiredHookSet", hook |-> hook]>>)

\* the fee step as it would be if the transfer were left out
DispatchFeeStep_NoCharge(S, caller) == Ok(S, None, <<>>)

\* the fee step as it would be if the fee were paid to the caller
DispatchFeeStep_PaysCaller(S, caller) == IF S.mailbox.dispatchFee > 0 THEN CurrencyTransferFrom(S, MAILBOX, S.mailbox.dispatchFee, caller, caller) ELSE Ok(S, None, <<>>)

\* the nonce a dispatch leaves as it would be if the increment were left out
NextNonce_Stuck(current_nonce) == current_nonce

\* the nonce a dispatch leaves: nonce.set(current_nonce + 1)
NextNonce(current_nonce) == current_nonce + 1

\* the fee step of dispatch: currency.transfer_from, called by the Mailbox
DispatchFeeStep(S, caller) == IF S.mailbox.dispatchFee > 0 THEN CurrencyTransferFrom(S, MAILBOX, S.mailbox.dispatchFee, S.mailbox.owner, caller) ELSE Ok(S, None, <<>>)

Dispatch(S, caller, destination_domain, recipient_address, message_body) ==
    LET paid == DispatchFeeStep(S, caller)
    IN IF paid.err # NoErr THEN paid
       ELSE LET S1 == paid.st
                origin == S1.mailbox.localDomain
                current_nonce == S1.mailbox.nonce
                message == BuildMessage(S1, origin, caller, destination_domain, recipient_address, message_body)
                msg_id == GenerateMessageId(message)
                S2 == [S1 EXCEPT !.mailbox.nonce = NextNonce(current_nonce), !.mailbox.latestDispatchedId = PyStr(msg_id)]
                ev == [event |-> "Dispatch", sender |-> caller, origin_domain |-> origin, destination_domain |-> destination_domain, recipient |-> recipient_address, message_id |-> msg_id, nonce |-> current_nonce]
            IN Ok(S2, PyStr(msg_id), paid.events \o <<ev>>)

\* process as it would be without the replay check
MailboxProcess_NoReplayCheck(S, caller, block_num, metadata, message_id) ==
    LET S1 == [S EXCEPT !.mailbox.deliveries = HashSet(@, message_id, [processor |-> PyStr(caller), blockNumber |-> block_num])]
    IN Ok(S1, None, <<[event |-> "Process", message_id |-> message_id, processor |-> caller, block_number |-> block_num]>>)

\* process as it would be if it also consumed a nonce
MailboxProcess_BumpsNonce(S, caller, block_num, metadata, message_id) ==
    LET delivered_info == HashGet(S.mailbox.deliveries, message_id, DefaultDelivery)
    IN IF delivered_info.blockNumber > 0 THEN Fail(S, "Mailbox: already delivered")
       ELSE LET S1 == [S EXCEPT !.mailbox.deliveries = HashSet(@, message_id, [processor |-> PyStr(caller), blockNumber |-> block_num]), !.mailbox.nonce = @ + 1]
            IN Ok(S1, None, <<[event |-> "Process", message_id |-> message_id, processor |-> caller, block_number |-> block_num]>>)

MailboxProcess(S, caller, block_num, metadata, message_id) ==
    LET delivered_info == HashGet(S.mailbox.deliveries, message_id, DefaultDelivery)
    IN IF delivered_info.blockNumber > 0 THEN Fail(S, "Mailbox: already delivered")
       ELSE LET S1 == [S EXCEPT !.mailbox.deliveries = HashSet(@, message_id, [processor |-> PyStr(caller), blockNumber |-> block_num])]
                ev == [event |-> "Process", message_id |-> message_id, processor |-> caller, block_number |-> HashGet(S1.mailbox.deliveries, message_id, DefaultDelivery).blockNumber]
            IN Ok(S1, None, <<ev>>)

Delivered(S, message_id) == HashGet(S.mailbox.deliveries, message_id, DefaultDelivery).blockNumber > 0

Processor(S, message_id) == HashGet(S.mailbox.deliveries, message_id, DefaultDelivery).processor

ProcessedAt(S, message_id) == HashGet(S.mailbox.deliveries, message_id, DefaultDelivery).blockNumber

GetDispatchFee(S) == S.mailbox.dispatchFee

SetDispatchFee(S, caller, amount) == IF ~MailboxOnlyOwner(S, caller) THEN Fail(S, OwnerOnlyMsg) ELSE Ok([S EXCEPT !.mailbox.dispatchFee = amount], None, <<>>)

(***************************************************************************)
(* interchaintoken.py                                                      *)
(***************************************************************************)
\* seed(domain, router, mailbox_contract, interchain_router_contract)
TokenSeed(caller, domain, router_, mailbox_contract, interchain_router_contract) == [balances |-> <<>>, owner |-> caller, localDomain |-> domain, routerName |-> router_, mailbox |-> mailbox_contract, interchainRouter |-> interchain_router_contract]

\* only_router() as it would be if the token's owner passed too
OnlyRouter_OwnerToo(S, caller) == caller = S.token.routerName \/ caller = S.token.owner

\* only_router() passes
OnlyRouter(S, caller) == caller = S.token.routerName

OnlyRouterMsg == "Only the configured router can call this function."

BalanceOf(S, account) == HashGet(S.token.balances, <<account>>, 0)

Allowance(S, owner, spender) == HashGet(S.token.balances, <<owner, spender>>, 0)

\* transfer as it would be if the sender were not debited
Transfer_NoDebit(S, caller, amount, to) ==
    IF ~(amount > 0) THEN Fail(S, "Cannot send negative balances!")
    ELSE IF ~(BalanceOf(S, caller) >= amount) THEN Fail(S, "Not enough coins to send!")
    ELSE Ok([S EXCEPT !.token.balances = HashSet(@, <<to>>, BalanceOf(S, to) + amount)], None, <<>>)

Transfer(S, caller, amount, to) ==
    IF Unordered(amount, 0) THEN Fail(S, InvalidOperation)
    ELSE IF ~NumLess(0, amount) THEN Fail(S, "Cannot send negative balances!")
    ELSE IF Unordered(BalanceOf(S, caller), amount) THEN Fail(S, InvalidOperation)
    ELSE IF NumLess(BalanceOf(S, caller), amount) THEN Fail(S, "Not enough coins to send!")
    ELSE IF SubRaises(BalanceOf(S, caller), amount) THEN Fail(S, InvalidOperation)
    ELSE LET S1 == [S EXCEPT !.token.balances = HashSet(@, <<caller>>, NumSub(BalanceOf(S, caller), amount))]
             S2 == [S1 EXCEPT !.token.balances = HashSet(@, <<to>>, NumAdd(BalanceOf(S1, to), amount))]
         IN IF AddRaises(BalanceOf(S1, to), amount) THEN Fail(S1, InvalidOperation) ELSE Ok(S2, None, <<>>)

\* approve as it would be if it overwrote the allowance
Approve_Overwrites(S, caller, amount, to) ==
    IF ~(amount > 0) THEN Fail(S, "Cannot send negative balances!")
    ELSE LET S1 == [S EXCEPT !.token.balances = HashSet(@, <<caller, to>>, amount)]
         IN Ok(S1, PyInt(Allowance(S1, caller, to)), <<>>)

Approve(S, caller, amount, to) ==
    IF Unordered(amount, 0) THEN Fail(S, InvalidOperation)
    ELSE IF ~NumLess(0, amount) THEN Fail(S, "Cannot send negative balances!")
    ELSE IF AddRaises(Allowance(S, caller, to), amount) THEN Fail(S, InvalidOperation)
    ELSE LET S1 == [S EXCEPT !.token.balances = HashSet(@, <<caller, to>>, NumAdd(Allowance(S, caller, to), amount))]
         IN Ok(S1, PyInt(Allowance(S1, caller, to)), <<>>)

\* transfer_from as it would be without the allowance check
TransferFrom_NoAllowanceCheck(S, caller, amount, to, main_account) ==
    IF ~(amount > 0) THEN Fail(S, "Cannot send negative balances!")
    ELSE IF ~(BalanceOf(S, main_account) >= amount) THEN Fail(S, "Not enough coins to send!")
    ELSE LET S1 == [S EXCEPT !.token.balances = HashSet(@, <<main_account, caller>>, Allowance(S, main_account, caller) - amount)]
             S2 == [S1 EXCEPT !.token.balances = HashSet(@, <<main_account>>, BalanceOf(S1, main_account) - amount)]
             S3 == [S2 EXCEPT !.token.balances = HashSet(@, <<to>>, BalanceOf(S2, to) + amount)]
         IN Ok(S3, None, <<>>)

TransferFrom(S, caller, amount, to, main_account) ==
    IF Unordered(amount, 0) THEN Fail(S, InvalidOperation)
    ELSE IF ~NumLess(0, amount) THEN Fail(S, "Cannot send negative balances!")
    ELSE IF Unordered(Allowance(S, main_account, caller), amount) THEN Fail(S, InvalidOperation)
    ELSE IF NumLess(Allowance(S, main_account, caller), amount) THEN Fail(S, "Not enough coins approved to send! You have " \o NumToString(Allowance(S, main_account, caller)) \o " and are trying to spend " \o NumToString(amount))
    ELSE IF Unordered(BalanceOf(S, main_account), amount) THEN Fail(S, InvalidOperation)
    ELSE IF NumLess(BalanceOf(S, main_account), amount) THEN Fail(S, "Not enough coins to send!")
    ELSE IF SubRaises(Allowance(S, main_account, caller), amount) THEN Fail(S, InvalidOperation)
    ELSE LET S1 == [S EXCEPT !.token.balances = HashSet(@, <<main_account, caller>>, NumSub(Allowance(S, main_account, caller), amount))]
             S2 == [S1 EXCEPT !.token.balances = HashSet(@, <<main_account>>, NumSub(BalanceOf(S1, main_account), amount))]
             S3 == [S2 EXCEPT !.token.balances = HashSet(@, <<to>>, NumAdd(BalanceOf(S2, to), amount))]
         IN IF SubRaises(BalanceOf(S1, main_account), amount) THEN Fail(S1, InvalidOperation)
            ELSE IF AddRaises(BalanceOf(S2, to), amount) THEN Fail(S2, InvalidOperation)
            ELSE Ok(S3, None, <<>>)

Mint(S, caller, to, amount) ==
    IF ~OnlyRouter(S, caller) THEN Fail(S, OnlyRouterMsg)
    ELSE IF AddRaises(BalanceOf(S, to), amount) THEN Fail(S, InvalidOperation)
    ELSE Ok([S EXCEPT !.token.balances = HashSet(@, <<to>>, NumAdd(BalanceOf(S, to), amount))], None, <<[event |-> "Mint", to |-> to, amount |-> amount]>>)

\* burn as it would be if the burned amount were not booked
Burn_NotBooked(S, caller, amount) ==
    IF BalanceOf(S, caller) < amount THEN Fail(S, "Insufficient balance to burn.")
    ELSE Ok([S EXCEPT !.token.balances = HashSet(@, <<caller>>, BalanceOf(S, caller) - amount)], None, <<[event |-> "Burn", from |-> caller, amount |-> amount]>>)

Burn(S, caller, amount) ==
    IF Unordered(BalanceOf(S, caller), amount) THEN Fail(S, InvalidOperation)
    ELSE IF NumLess(BalanceOf(S, caller), amount) THEN Fail(S, "Insufficient balance to burn.")
    ELSE IF SubRaises(BalanceOf(S, caller), amount) THEN Fail(S, InvalidOperation)
    ELSE LET S1 == [S EXCEPT !.token.balances = HashSet(@, <<caller>>, NumSub(BalanceOf(S, caller), amount))]
             S2 == [S1 EXCEPT !.token.balances = HashSet(@, <<BRIDGE_BURNED>>, NumAdd(BalanceOf(S1, BRIDGE_BURNED), amount))]
         IN IF AddRaises(BalanceOf(S1, BRIDGE_BURNED), amount) THEN Fail(S1, InvalidOperation)
            ELSE Ok(S2, None, <<[event |-> "Burn", from |-> caller, amount |-> amount]>>)

\* the bridging payload f"{ctx.caller}|{recipient}|{amount}|{localDomain.get()}"
BridgeBody(sender, recipient, amount, domain) == Join(<<sender, recipient, IntToStr(amount), IntToStr(domain)>>, <<"|">>)

\* Whether the name `mailbox` holds a value when line 174 reads it.  The
\* assignment `mailbox = importlib.import_module(mailbox.get())` makes
\* `mailbox` a local name of xTransfer, so the read on its right-hand side
\* finds no value and Python raises UnboundLocalError.
MailboxNameIsBound == FALSE

XTransfer(S, caller, destination_domain, recipient, amount) ==
    LET burnt == Burn(S, caller, amount)
    IN IF burnt.err # NoErr THEN burnt
       ELSE IF ~MailboxNameIsBound THEN Fail(burnt.st, "UnboundLocalError: mailbox")
       ELSE LET message_body == BridgeBody(caller, recipient, amount, burnt.st.token.localDomain)
                sent == Dispatch(burnt.st, TOKEN, destination_domain, burnt.st.token.interchainRouter, message_body)
            IN IF sent.err # NoErr THEN sent
               ELSE Ok(sent.st, sent.ret, burnt.events \o sent.events \o <<[event |-> "RemoteTransfer", sender |-> caller, recipient |-> recipient, amount |-> amount, message_id |-> sent.ret]>>)

HandleRemoteMint(S, caller, sender, recipient, amount) ==
    IF ~OnlyRouter(S, caller) THEN Fail(S, OnlyRouterMsg)
    ELSE IF AddRaises(BalanceOf(S, recipient), amount) THEN Fail(S, InvalidOperation)
    ELSE Ok([S EXCEPT !.token.balances = HashSet(@, <<recipient>>, NumAdd(BalanceOf(S, recipient), amount))], None, <<[event |-> "ReceiveRemoteTransfer", sender |-> sender, amount |-> amount]>>)

(***************************************************************************)
(* interchaintokenrouter.py                                                *)
(***************************************************************************)
\* seed(domain, mailbox_contract_name)
RouterSeed(caller, domain, mailbox_contract_name) == [tokensByDomain |-> <<>>, localDomain |-> domain, owner |-> caller, mailbox_contract |-> mailbox_contract_name]

\* only_owner() as it would be if it let every caller through
RouterOnlyOwner_AnyCaller(S, caller) == TRUE

\* only_owner() passes
RouterOnlyOwner(S, caller) == caller = S.router.owner

SetTokenForDomain(S, caller, domain_id, token_name) == IF ~RouterOnlyOwner(S, caller) THEN Fail(S, OwnerOnlyMsg) ELSE Ok([S EXCEPT !.router.tokensByDomain = HashSet(@, domain_id, token_name)], None, <<>>)

GetTokenForDomain(S, domain_id) == HashGet(S.router.tokensByDomain, domain_id, EmptyStr)

\* process as it would be if whatever fails after the Mailbox step were swallowed
RouterProcess_MarksOnly(S, caller, block_num, message_body, message_id) ==
    LET marked == MailboxProcess(S, ROUTER, block_num, message_body, message_id)
    IN IF marked.err # NoErr THEN marked ELSE Ok(marked.st, None, marked.events)

RouterProcess(S, caller, block_num, message_body, message_id) ==
    LET marked == MailboxProcess(S, ROUTER, block_num, message_body, message_id)
        parts == Split(message_body, "|")
    IN IF marked.err # NoErr THEN marked
       ELSE IF Len(parts) # 4 THEN Fail(marked.st, "Invalid message format.")
       ELSE IF ~IsDecimalStr(parts[3]) THEN Fail(marked.st, "decimal: invalid amount")
       ELSE IF ~IsIntStr(parts[4]) THEN Fail(marked.st, "int: invalid origin domain")
       ELSE LET sender == parts[1]
                recipient == parts[2]
                amount == ParseDecimal(parts[3])
                origin_domain == ParseInt(parts[4])
                ev == [event |-> "RouterMessage", message_body |-> message_body, sender_domain |-> origin_domain, sender_address |-> sender]
                local_token_name == GetTokenForDomain(marked.st, marked.st.router.localDomain)
            IN IF local_token_name = EmptyStr THEN Fail(marked.st, "No InterchainToken configured for this domain.")
               ELSE IF local_token_name # TOKEN THEN Fail(marked.st, "import_module: no InterchainToken of that name")
               ELSE LET credited == HandleRemoteMint(marked.st, ROUTER, sender, recipient, amount)
                    IN IF credited.err # NoErr THEN credited
                       ELSE Ok(credited.st, None, marked.events \o <<ev>> \o credited.events)

(***************************************************************************)
(* Deployment, transactions and their inputs.                              *)
(***************************************************************************)
\* the ledger at deployment: what each account holds before any fee is paid
CurrencyGenesis == [balances |-> (<<SYS>> :> 2) @@ (<<USER1>> :> 2), approvals |-> <<>>]

\* a well-formed bridging payload, one with three fields, and one whose
\* amount is no number
BODY_OK == <<"u", "s", "e", "r", "1", "|", "u", "s", "e", "r", "2", "|", "1", "|", "1">>
BODY_SHORT == <<"u", "s", "e", "r", "1", "|", "u", "s", "e", "r", "2", "|", "1">>
BODY_NAN == <<"u", "s", "e", "r", "1", "|", "u", "s", "e", "r", "2", "|", "x", "|", "1">>
BODY_TEXT == <<"h", "e", "l", "l", "o">>

\* a message identifier no dispatch returned
FOREIGN_ID == <<"f", "0", "0", "d">>

\* the identifiers dispatch has returned so far
DispatchedIds == {dispatched[i].message_id : i \in 1..Len(dispatched)}

\* block_num of the environment a transaction runs in: the first block and a
\* later one
Heights == {0, MaxHeight}

\* the fees the owner may set: a negative one, none, the least and the largest
Fees == {0 - 1, 0, 1, MaxFee}

\* the allowances an account may set for the Mailbox on the ledger: none, or
\* the largest fee (smaller ones remain after a fee was paid)
Allowances == {0, MaxFee}

IsDispatchEvent(e) == e.event = "Dispatch"

IsProcessEvent(e) == e.event = "Process"

IsMintEvent(e) == e.event = "ReceiveRemoteTransfer"

\* the executor: the storage after a transaction run on storage S with result
\* r.  A transaction that returns commits its writes, one that raises
\* commits none
After(S, r) == IF r.err = NoErr THEN r.st ELSE S

Commit(r) == /\ mailbox' = After(Cur, r).mailbox /\ currency' = After(Cur, r).currency /\ token' = After(Cur, r).token /\ router' = After(Cur, r).router

\* the storage of all contracts after the step
CurNext == [mailbox |-> mailbox', currency |-> currency', token |-> token', router |-> router']

\* history: the Dispatch events of committed transactions, each with the body
\* sent and the value the transaction returned
LogDispatched(r, body) ==
    LET evs == SelectSeq(r.events, IsDispatchEvent)
    IN dispatched' = IF r.err = NoErr THEN dispatched \o [i \in 1..Len(evs) |-> [returned |-> r.ret, message_id |-> evs[i].message_id, nonce |-> evs[i].nonce, sender |-> evs[i].sender, destination_domain |-> evs[i].destination_domain, recipient |-> evs[i].recipient, body |-> body]] ELSE dispatched

\* history: the identifiers named by the Process events of committed
\* transactions, that is those for which a process call has succeeded
LogProcessed(r) ==
    LET evs == SelectSeq(r.events, IsProcessEvent)
    IN processed' = IF r.err = NoErr THEN processed \cup {evs[i].message_id : i \in 1..Len(evs)} ELSE processed

\* history: per identifier, how many committed transactions invoked
\* handleRemoteMint for it
LogMinted(r, message_id) ==
    LET evs == SelectSeq(r.events, IsMintEvent)
    IN minted' = IF r.err = NoErr /\ Len(evs) > 0 THEN HashSet(minted, message_id, HashGet(minted, message_id, 0) + Len(evs)) ELSE minted

\* how many mints were made in all
RECURSIVE SumOver(_, _)
SumOver(f, keys) == IF keys = {} THEN 0 ELSE LET k == CHOOSE x \in keys : TRUE IN f[k] + SumOver(f, keys \ {k})

MintCount == SumOver(minted, DOMAIN minted)

\* the deployment of setUp: the token is constructed with router='router1'
Init ==
    /\ mailbox = MailboxSeed(SYS)
    /\ currency = CurrencyGenesis
    /\ token = TokenSeed(SYS, 1, ROUTER1, MAILBOX, ROUTER)
    /\ router = RouterSeed(SYS, 2, MAILBOX)
    /\ dispatched = <<>>
    /\ processed = {}
    /\ minted = <<>>

\* the deployment of setUp, and the one whose token is constructed with the
\* router contract as its router
InitBridge ==
    /\ mailbox = MailboxSeed(SYS)
    /\ currency = CurrencyGenesis
    /\ \E router_ \in {ROUTER1, ROUTER} : token = TokenSeed(SYS, 1, router_, MAILBOX, ROUTER)
    /\ router = RouterSeed(SYS, 2, MAILBOX)
    /\ dispatched = <<>>
    /\ processed = {}
    /\ minted = <<>>

\* mailbox.dispatch signed by an account
DispatchTx(callers, dests, recipients, bodies) ==
    \E caller \in callers, dest \in dests, recipient \in recipients, body \in bodies :
        /\ mailbox.nonce < MaxNonce
        /\ LET r == Dispatch(Cur, caller, dest, recipient, body)
           IN Commit(r) /\ LogDispatched(r, body) /\ UNCHANGED <<processed, minted>>

\* mailbox.process signed by an account
ProcessTx(callers, heights, metas, ids) ==
    \E caller \in callers, block_num \in heights, metadata \in metas, message_id \in ids :
        LET r == MailboxProcess(Cur, caller, block_num, metadata, message_id)
        IN Commit(r) /\ LogProcessed(r) /\ UNCHANGED <<dispatched, minted>>

\* mailbox.setDispatchFee signed by an account
SetDispatchFeeTx(callers, amounts) ==
    \E caller \in callers, amount \in amounts :
        LET r == SetDispatchFee(Cur, caller, amount)
        IN Commit(r) /\ UNCHANGED <<dispatched, processed, minted>>

\* currency.approve signed by an account, in favour of the Mailbox
CurrencyApproveTx(callers, amounts) ==
    \E caller \in callers, amount \in amounts :
        LET r == CurrencyApprove(Cur, caller, amount, MAILBOX)
        IN Commit(r) /\ UNCHANGED <<dispatched, processed, minted>>

\* router.setTokenForDomain signed by an account
SetTokenForDomainTx(callers, domains, names) ==
    \E caller \in callers, domain_id \in domains, token_name \in names :
        LET r == SetTokenForDomain(Cur, caller, domain_id, token_name)
        IN Commit(r) /\ UNCHANGED <<dispatched, processed, minted>>

\* router.process signed by a relayer
RouterProcessTx(callers, heights, bodies, ids) ==
    \E caller \in callers, block_num \in heights, body \in bodies, message_id \in ids :
        /\ MintCount < MaxMints
        /\ LET r == RouterProcess(Cur, caller, block_num, body, message_id)
           IN Commit(r) /\ LogProcessed(r) /\ LogMinted(r, message_id) /\ UNCHANGED dispatched

\* token.xTransfer signed by an account
XTransferTx(callers, dests, recipients, amounts) ==
    \E caller \in callers, dest \in dests, recipient \in recipients, amount \in amounts :
        /\ mailbox.nonce < MaxNonce
        /\ LET r == XTransfer(Cur, caller, dest, recipient, amount)
           IN Commit(r) /\ LogDispatched(r, BridgeBody(caller, recipient, amount, token.localDomain)) /\ UNCHANGED <<processed, minted>>

(***************************************************************************)
(* Spec: message delivery and bridging.  Accounts dispatch, relayers       *)
(* process directly and through the router, the router owner registers the *)
(* token, the Mailbox owner sets the fee.                                  *)
(***************************************************************************)
Next ==
    \/ DispatchTx({USER1}, {1}, {ROUTER}, {BODY_OK})
    \/ ProcessTx({USER2}, Heights, {BODY_TEXT}, DispatchedIds \cup {FOREIGN_ID})
    \/ RouterProcessTx({SYS}, Heights, {BODY_OK, BODY_SHORT}, DispatchedIds \cup {FOREIGN_ID})
    \/ SetTokenForDomainTx({SYS, USER1}, {2}, {TOKEN, EmptyStr})
    \/ XTransferTx({USER1}, {2}, {USER2}, {0, 1})
    \/ SetDispatchFeeTx({SYS, USER1}, {0, 1})

Spec == InitBridge /\ [][Next]_vars

(***************************************************************************)
(* SpecDispatch: dispatching and its fee.  The owner sets the fee,         *)
(* accounts approve the Mailbox on the ledger and dispatch; a relayer      *)
(* processes what was dispatched.                                          *)
(***************************************************************************)
NextDispatch ==
    \/ DispatchTx(Users, {1}, {ROUTER}, {BODY_TEXT})
    \/ SetDispatchFeeTx({SYS, USER1}, Fees)
    \/ CurrencyApproveTx(Users, Allowances)
    \/ ProcessTx({USER2}, {1}, {BODY_TEXT}, DispatchedIds)

SpecDispatch == Init /\ [][NextDispatch]_vars

(***************************************************************************)
(* Properties of delivery (checked under Spec).                            *)
(***************************************************************************)
AlreadyDelivered == "Mailbox: already delivered"

\* whoever may be ctx.caller of mailbox.process: an account, or the router
Processors == Users \cup {ROUTER}

\* the identifiers a call may name
AnyIds == DispatchedIds \cup {FOREIGN_ID}

\* the stored delivery record of an identifier
Delivery(S, message_id) == HashGet(S.mailbox.deliveries, message_id, DefaultDelivery)

\* C1: exactly-once delivery.  Once a Mailbox.process call for an identifier
\* has succeeded, every further Mailbox.process call for it, by any caller at
\* any block number, fails with 'Mailbox: already delivered', and no step
\* changes the identifier's delivery record.
C1_ExactlyOnce ==
    [][\A id \in processed :
          /\ \A c \in Processors, h \in Heights : MailboxProcess(Cur, c, h, BODY_TEXT, id).err = AlreadyDelivered
          /\ Delivery(CurNext, id) = Delivery(Cur, id)]_vars

\* C2: no replay through any path.  Over every interleaving of direct and
\* routed process calls, the router invokes handleRemoteMint at most once
\* per message identifier.
C2_MintAtMostOnce == \A id \in DOMAIN minted : minted[id] <= 1

\* C3: delivery is terminal.  Once delivered(id) is true it stays true, and
\* processor(id) and processedAt(id) never change, whatever step follows.
C3_DeliveryTerminal ==
    [][\A id \in AnyIds :
          Delivered(Cur, id) =>
              /\ Delivered(CurNext, id)
              /\ Processor(CurNext, id) = Processor(Cur, id)
              /\ ProcessedAt(CurNext, id) = ProcessedAt(Cur, id)]_vars

\* C3 witness: an identifier is delivered, and dispatches, a routed mint and
\* a fee change have happened around it.
C3_Witness ==
    /\ \E id \in AnyIds : Delivered(Cur, id) /\ Processor(Cur, id) = PyStr(USER2)
    /\ Len(dispatched) = MaxNonce
    /\ MintCount > 0
    /\ mailbox.dispatchFee = 1

\* C4: effect of a successful Mailbox.process.  Right after a successful
\* process(metadata, id) by caller c at block number h, delivered(id) is
\* true, processor(id) is c and processedAt(id) is h, whatever the metadata.
C4_ProcessEffect ==
    \A c \in Processors, h \in Heights, m \in {BODY_TEXT, BODY_OK}, id \in AnyIds :
        LET r == MailboxProcess(Cur, c, h, m, id)
        IN r.err = NoErr =>
               /\ Delivered(After(Cur, r), id)
               /\ Processor(After(Cur, r), id) = PyStr(c)
               /\ ProcessedAt(After(Cur, r), id) = h

\* C5: router replay rejection.  After one successful router.process for an
\* identifier, every further router.process for it, with any body, fails
\* with the Mailbox's 'already delivered' error (and so mints nothing).
C5_RouterReplayRejected ==
    \A id \in DOMAIN minted :
        \A h \in Heights, body \in {BODY_OK, BODY_SHORT, BODY_NAN} :
            RouterProcess(Cur, SYS, h, body, id).err = AlreadyDelivered

(***************************************************************************)
(* Properties of dispatch (checked under SpecDispatch).                    *)
(***************************************************************************)
\* the arguments a dispatch call may carry
DispatchArgs == Users \X {1, 2} \X {ROUTER} \X {BODY_TEXT, BODY_OK}

\* C6: nonce ordering.  The nonce starts at 0 and equals the number of
\* successful dispatches in every state (each dispatch adds exactly 1, no
\* other operation changes it), and the k-th successful dispatch is assigned
\* nonce k - 1.
C6_NonceOrdering ==
    /\ mailbox.nonce = Len(dispatched)
    /\ \A k \in 1..Len(dispatched) : dispatched[k].nonce = k - 1

\* C6 witness: two dispatches by different callers, with a fee change, a
\* ledger approval and a process call among the steps.
C6_Witness ==
    /\ Len(dispatched) = 2
    /\ dispatched[1].sender # dispatched[2].sender
    /\ dispatched[2].nonce = 1
    /\ mailbox.dispatchFee > 0
    /\ processed # {}
    /\ CurrencyAllowance(Cur, USER2, MAILBOX) > 0

\* C7: identifier uniqueness across dispatches.  Any two distinct successful
\* dispatches returned different identifiers.
C7_DistinctIds ==
    \A i, j \in 1..Len(dispatched) :
        i # j => (dispatched[i].message_id # dispatched[j].message_id /\ dispatched[i].returned # dispatched[j].returned)

\* C7 witness: two dispatches with the same sender, destination, recipient
\* and body.
C7_Witness ==
    /\ Len(dispatched) = 2
    /\ dispatched[1].sender = dispatched[2].sender
    /\ dispatched[1].destination_domain = dispatched[2].destination_domain
    /\ dispatched[1].recipient = dispatched[2].recipient
    /\ dispatched[1].body = dispatched[2].body

\* the caller cannot pay the fee F: balance or allowance to the Mailbox below F
CannotPay(S, c) == CurrencyBalanceOf(S, c) < S.mailbox.dispatchFee \/ CurrencyAllowance(S, c, MAILBOX) < S.mailbox.dispatchFee

\* C8: a failed dispatch consumes nothing.  With dispatchFee = F > 0 and the
\* caller's ledger balance or allowance to the Mailbox below F, dispatch
\* fails, having written nothing, and the nonce, latestDispatchedId and the
\* ledger's balances and allowances are as before the call.
C8_FailedDispatchConsumesNothing ==
    \A a \in DispatchArgs :
        LET r == Dispatch(Cur, a[1], a[2], a[3], a[4])
        IN (mailbox.dispatchFee > 0 /\ CannotPay(Cur, a[1])) =>
               /\ r.err # NoErr
               /\ r.st = Cur
               /\ After(Cur, r).mailbox.nonce = mailbox.nonce
               /\ After(Cur, r).mailbox.latestDispatchedId = mailbox.latestDispatchedId
               /\ After(Cur, r).currency = currency

\* C8 witness: after USER1 paid a fee of 1, the fee is MaxFee; USER2 has the
\* allowance but not the balance, the owner has the balance but not the
\* allowance, and USER1 is left with too little of both.
C8_Witness ==
    /\ mailbox.dispatchFee = MaxFee
    /\ mailbox.nonce = 1
    /\ CurrencyAllowance(Cur, USER2, MAILBOX) = MaxFee
    /\ CurrencyBalanceOf(Cur, USER2) < MaxFee
    /\ CurrencyBalanceOf(Cur, SYS) >= MaxFee
    /\ CurrencyAllowance(Cur, SYS, MAILBOX) = 0
    /\ CurrencyBalanceOf(Cur, USER1) = 1
    /\ CurrencyAllowance(Cur, USER1, MAILBOX) = MaxFee - 1

\* C9 as stated: a successful dispatch with dispatchFee F > 0 lowers the
\* caller's ledger balance by exactly F and raises the owner's by exactly F;
\* with F <= 0 it changes nothing on the ledger.
C9_FeeMovesCallerToOwner ==
    \A a \in DispatchArgs :
        LET r == Dispatch(Cur, a[1], a[2], a[3], a[4])
            F == mailbox.dispatchFee
        IN r.err = NoErr =>
               IF F > 0
               THEN /\ CurrencyBalanceOf(After(Cur, r), a[1]) = CurrencyBalanceOf(Cur, a[1]) - F
                    /\ CurrencyBalanceOf(After(Cur, r), mailbox.owner) = CurrencyBalanceOf(Cur, mailbox.owner) + F
               ELSE After(Cur, r).currency = currency

\* C9 amended: a successful dispatch with dispatchFee F > 0 by a caller other
\* than the owner lowers the caller's ledger balance by exactly F and raises
\* the owner's by exactly F; by the owner it leaves the owner's balance as it
\* was; in both cases no other balance changes; with F <= 0 it changes
\* nothing on the ledger.
C9_FeeCharged ==
    \A a \in DispatchArgs :
        LET r == Dispatch(Cur, a[1], a[2], a[3], a[4])
            F == mailbox.dispatchFee
        IN r.err = NoErr =>
               IF F > 0
               THEN /\ (a[1] # mailbox.owner) =>
                           /\ CurrencyBalanceOf(After(Cur, r), a[1]) = CurrencyBalanceOf(Cur, a[1]) - F
                           /\ CurrencyBalanceOf(After(Cur, r), mailbox.owner) = CurrencyBalanceOf(Cur, mailbox.owner) + F
                    /\ (a[1] = mailbox.owner) => (CurrencyBalanceOf(After(Cur, r), a[1]) = CurrencyBalanceOf(Cur, a[1]))
                    /\ \A u \in Users \ {a[1], mailbox.owner} : CurrencyBalanceOf(After(Cur, r), u) = CurrencyBalanceOf(Cur, u)
               ELSE After(Cur, r).currency = currency

\* C9 witness: USER1 has paid a fee of 1 to the owner, and the owner has
\* dispatched under a positive fee too.
C9_Witness ==
    /\ CurrencyBalanceOf(Cur, USER1) = 1
    /\ CurrencyBalanceOf(Cur, SYS) = 3
    /\ Len(dispatched) = 2
    /\ dispatched[1].sender = USER1
    /\ dispatched[2].sender = SYS
    /\ mailbox.dispatchFee > 0

\* C10: dispatch postcondition.  A successful dispatch returns the identifier
\* derived from the message with the Mailbox's localDomain as origin, the
\* immediate caller as sender, the given destination, recipient and body and
\* the nonce held before the call, and leaves it in latestDispatchedId.
C10_DispatchPostcondition ==
    \A a \in DispatchArgs :
        LET r == Dispatch(Cur, a[1], a[2], a[3], a[4])
        IN r.err = NoErr =>
               /\ r.ret = PyStr(Sha256(Hex(Join(<<IntToStr(VERSION), IntToStr(mailbox.nonce), mailbox.localDomain, a[1], IntToStr(a[2]), a[3], a[4]>>, <<"-">>))))
               /\ After(Cur, r).mailbox.latestDispatchedId = r.ret

\* C10 witness: two dispatches were made and latestDispatchedId is the
\* identifier the second returned.
C10_Witness ==
    /\ Len(dispatched) = 2
    /\ mailbox.latestDispatchedId = dispatched[2].returned
    /\ mailbox.latestDispatchedId # dispatched[1].returned
    /\ dispatched[2].sender = USER2

(***************************************************************************)
(* SpecToken: the InterchainToken as a ledger.  Holders transfer, approve, *)
(* spend allowances, burn and bridge out; the router and others call the   *)
(* minting functions; the Mailbox owner sets the fee.                      *)
(***************************************************************************)
\* tokens are minted while fewer than MaxSupply are held by accounts, and
\* burned while BRIDGE_BURNED is within -MaxSupply..MaxSupply
MaxSupply == 3
\* allowances are raised while below MaxAllowance
MaxAllowance == 2

\* the token at deployment, with the balance the bridging test gives user1
TokenGenesis(router_) == [TokenSeed(SYS, 1, router_, MAILBOX, ROUTER) EXCEPT !.balances = (<<USER1>> :> 2)]

\* the accounts whose balances are looked at
Holders == Users \cup {BRIDGE_BURNED}

\* whoever may be ctx.caller of the minting functions: an account, the router
\* contract, or a caller by the name the test gives the token as its router
Minters == Users \cup {ROUTER, ROUTER1}

\* the tokens held by accounts
Circulating == BalanceOf(Cur, SYS) + BalanceOf(Cur, USER1) + BalanceOf(Cur, USER2)

InitToken ==
    /\ mailbox = MailboxSeed(SYS)
    /\ currency = CurrencyGenesis
    /\ token = TokenGenesis(ROUTER1)
    /\ router = RouterSeed(SYS, 2, MAILBOX)
    /\ dispatched = <<>>
    /\ processed = {}
    /\ minted = <<>>

\* token.transfer signed by an account
TransferTx(callers, amounts, tos) ==
    \E caller \in callers, amount \in amounts, to \in tos :
        LET r == Transfer(Cur, caller, amount, to)
        IN Commit(r) /\ UNCHANGED <<dispatched, processed, minted>>

\* token.approve signed by an account
ApproveTx(callers, amounts, tos) ==
    \E caller \in callers, amount \in amounts, to \in tos :
        /\ Allowance(Cur, caller, to) < MaxAllowance
        /\ LET r == Approve(Cur, caller, amount, to)
           IN Commit(r) /\ UNCHANGED <<dispatched, processed, minted>>

\* token.transfer_from signed by an account
TransferFromTx(callers, amounts, tos, main_accounts) ==
    \E caller \in callers, amount \in amounts, to \in tos, main_account \in main_accounts :
        LET r == TransferFrom(Cur, caller, amount, to, main_account)
        IN Commit(r) /\ UNCHANGED <<dispatched, processed, minted>>

\* token.mint called by an account or a contract
MintTx(callers, tos, amounts) ==
    \E caller \in callers, to \in tos, amount \in amounts :
        /\ Circulating < MaxSupply
        /\ LET r == Mint(Cur, caller, to, amount)
           IN Commit(r) /\ UNCHANGED <<dispatched, processed, minted>>

\* token.handleRemoteMint called by an account or a contract
HandleRemoteMintTx(callers, senders, recipients, amounts) ==
    \E caller \in callers, sender \in senders, recipient \in recipients, amount \in amounts :
        /\ Circulating < MaxSupply
        /\ LET r == HandleRemoteMint(Cur, caller, sender, recipient, amount)
           IN Commit(r) /\ UNCHANGED <<dispatched, processed, minted>>

\* token.burn signed by an account
BurnTx(callers, amounts) ==
    \E caller \in callers, amount \in amounts :
        /\ Circulating <= MaxSupply
        /\ BalanceOf(Cur, BRIDGE_BURNED) \in (0 - MaxSupply)..MaxSupply
        /\ LET r == Burn(Cur, caller, amount)
           IN Commit(r) /\ UNCHANGED <<dispatched, processed, minted>>

NextToken ==
    \/ TransferTx({USER1, USER2}, {0 - 1, 0, 1}, {USER1, USER2})
    \/ ApproveTx({USER1}, {0, 1}, {USER2})
    \/ TransferFromTx({USER2}, {1, 2}, {USER2, SYS}, {USER1})
    \/ MintTx(Minters, {USER2}, {1})
    \/ HandleRemoteMintTx(Minters, {USER1}, {USER2}, {1})
    \/ BurnTx({USER1, USER2}, {0 - 1, 0, 1, 2})
    \/ XTransferTx({USER1, USER2}, {2}, {USER2}, {0, 1})
    \/ SetDispatchFeeTx({SYS}, {0, 1})

SpecToken == InitToken /\ [][NextToken]_vars

(***************************************************************************)
(* Properties of the token ledger (checked under SpecToken).               *)
(***************************************************************************)
\* the amounts a caller may pass: negative, zero, positive
AnyAmounts == (0 - 1)..MaxSupply

\* C11: balances are never negative.  In every reachable state every
\* account balance, BRIDGE_BURNED included, is >= 0.
C11_BalancesNonNegative == \A a \in Holders : BalanceOf(Cur, a) >= 0

\* the balance entries (accounts and allowances) that differ between two storages
ChangedEntries(S, T) == {k \in DOMAIN S.token.balances \cup DOMAIN T.token.balances : HashGet(S.token.balances, k, 0) # HashGet(T.token.balances, k, 0)}

\* C12: mint authorization.  mint and handleRemoteMint succeed only when the
\* immediate caller is the configured router name; for every other caller
\* they fail with the authorization error, having written nothing.
C12_MintAuthorization ==
    \A c \in Minters \cup {ROUTER1, TOKEN, MAILBOX}, to \in Users, amount \in AnyAmounts :
        LET m == Mint(Cur, c, to, amount)
            h == HandleRemoteMint(Cur, c, USER1, to, amount)
        IN /\ (m.err = NoErr) => (c = token.routerName)
           /\ (h.err = NoErr) => (c = token.routerName)
           /\ (c # token.routerName) =>
                  /\ m.err = OnlyRouterMsg
                  /\ h.err = OnlyRouterMsg
                  /\ m.st = Cur
                  /\ h.st = Cur
                  /\ After(Cur, m).token.balances = token.balances
                  /\ After(Cur, h).token.balances = token.balances

\* C12 witness: the router has minted (the tokens in existence outnumber
\* those of the deployment) and the owner holds tokens it was sent.
C12_Witness ==
    /\ Circulating + BalanceOf(Cur, BRIDGE_BURNED) > 2
    /\ BalanceOf(Cur, SYS) > 0
    /\ BalanceOf(Cur, USER2) > 0

\* C20: burn effect.  burn(amount) by caller c with balance(c) >= amount
\* lowers balance(c) by exactly amount and raises BRIDGE_BURNED by exactly
\* amount, touching no other entry; with balance(c) < amount it fails with
\* 'Insufficient balance to burn.' and writes nothing.
C20_BurnEffect ==
    \A c \in Users, amount \in AnyAmounts :
        LET r == Burn(Cur, c, amount)
        IN IF BalanceOf(Cur, c) >= amount
           THEN /\ r.err = NoErr
                /\ BalanceOf(After(Cur, r), c) = BalanceOf(Cur, c) - amount
                /\ BalanceOf(After(Cur, r), BRIDGE_BURNED) = BalanceOf(Cur, BRIDGE_BURNED) + amount
                /\ ChangedEntries(Cur, After(Cur, r)) \subseteq {<<c>>, <<BRIDGE_BURNED>>}
           ELSE /\ r.err = "Insufficient balance to burn."
                /\ r.st = Cur
                /\ After(Cur, r).token.balances = token.balances

\* C20 witness: tokens were burned while other accounts hold balances and an
\* allowance is outstanding.
C20_Witness ==
    /\ BalanceOf(Cur, BRIDGE_BURNED) = 2
    /\ BalanceOf(Cur, USER1) = 0
    /\ BalanceOf(Cur, USER2) > 0
    /\ Allowance(Cur, USER1, USER2) > 0

(***************************************************************************)
(* SpecAdmin: administration of the Mailbox.  Accounts call the owner-only *)
(* setters and dispatch.                                                   *)
(***************************************************************************)
\* the module and hook names the setters are given
Modules == {"newIsm", "badIsm"}

Hooks == {"someHook", "reqHook"}

\* mailbox.setDefaultIsm signed by an account
SetDefaultIsmTx(callers, modules) ==
    \E caller \in callers, module \in modules :
        LET r == SetDefaultIsm(Cur, caller, module)
        IN Commit(r) /\ UNCHANGED <<dispatched, processed, minted>>

\* mailbox.setDefaultHook signed by an account
SetDefaultHookTx(callers, hooks) ==
    \E caller \in callers, hook \in hooks :
        LET r == SetDefaultHook(Cur, caller, hook)
        IN Commit(r) /\ UNCHANGED <<dispatched, processed, minted>>

\* mailbox.setRequiredHook signed by an account
SetRequiredHookTx(callers, hooks) ==
    \E caller \in callers, hook \in hooks :
        LET r == SetRequiredHook(Cur, caller, hook)
        IN Commit(r) /\ UNCHANGED <<dispatched, processed, minted>>

NextAdmin ==
    \/ SetDefaultIsmTx(Users, Modules)
    \/ SetDefaultHookTx(Users, Hooks)
    \/ SetRequiredHookTx(Users, Hooks)
    \/ SetDispatchFeeTx(Users, Fees)
    \/ DispatchTx({USER1}, {1}, {ROUTER}, {BODY_TEXT})

SpecAdmin == Init /\ [][NextAdmin]_vars

\* C13: Mailbox owner-only setters.  setDispatchFee, setDefaultIsm,
\* setDefaultHook and setRequiredHook called by any account other than the
\* owner fail with 'Only the contract owner can call this method.', having
\* written nothing; called by the owner they overwrite exactly the targeted
\* variable with the given value.
C13_OwnerOnlySetters ==
    \A c \in Users, m \in Modules, h \in Hooks, a \in Fees :
        LET i == SetDefaultIsm(Cur, c, m)
            d == SetDefaultHook(Cur, c, h)
            q == SetRequiredHook(Cur, c, h)
            f == SetDispatchFee(Cur, c, a)
        IN IF c # mailbox.owner
           THEN /\ i.err = OwnerOnlyMsg /\ i.st = Cur
                /\ d.err = OwnerOnlyMsg /\ d.st = Cur
                /\ q.err = OwnerOnlyMsg /\ q.st = Cur
                /\ f.err = OwnerOnlyMsg /\ f.st = Cur
           ELSE /\ i.err = NoErr /\ After(Cur, i) = [Cur EXCEPT !.mailbox.defaultIsm = m]
                /\ d.err = NoErr /\ After(Cur, d) = [Cur EXCEPT !.mailbox.defaultHook = h]
                /\ q.err = NoErr /\ After(Cur, q) = [Cur EXCEPT !.mailbox.requiredHook = h]
                /\ f.err = NoErr /\ After(Cur, f) = [Cur EXCEPT !.mailbox.dispatchFee = a]

\* C13 witness: the owner has set all four variables and a dispatch was made.
C13_Witness ==
    /\ mailbox.defaultIsm = "newIsm"
    /\ mailbox.defaultHook = "someHook"
    /\ mailbox.requiredHook = "reqHook"
    /\ mailbox.dispatchFee = 1
    /\ mailbox.nonce > 0

(***************************************************************************)
(* Properties of xTransfer (checked under SpecToken).                      *)
(***************************************************************************)
\* the destination domain and recipient of the bridging calls looked at
REMOTE_DOMAIN == 2

\* C14: xTransfer effect.  xTransfer(destinationDomain, recipient, amount) by
\* a caller s with balance >= amount, when no fee stands in the way,
\* succeeds: it lowers s's balance by amount, raises BRIDGE_BURNED by
\* amount, dispatches one message with body 's|recipient|amount|localDomain'
\* to the configured interchain router, advances the nonce by 1 and returns
\* the identifier of that dispatch.
C14_XTransferEffect ==
    \A s \in Users, amount \in 1..MaxSupply :
        LET r == XTransfer(Cur, s, REMOTE_DOMAIN, USER2, amount)
            sent == SelectSeq(r.events, IsDispatchEvent)
        IN (BalanceOf(Cur, s) >= amount /\ mailbox.dispatchFee <= 0) =>
               /\ r.err = NoErr
               /\ BalanceOf(After(Cur, r), s) = BalanceOf(Cur, s) - amount
               /\ BalanceOf(After(Cur, r), BRIDGE_BURNED) = BalanceOf(Cur, BRIDGE_BURNED) + amount
               /\ After(Cur, r).mailbox.nonce = mailbox.nonce + 1
               /\ Len(sent) = 1
               /\ sent[1].recipient = token.interchainRouter
               /\ r.ret = PyStr(GenerateMessageId(BuildMessage(Cur, mailbox.localDomain, TOKEN, REMOTE_DOMAIN, token.interchainRouter, BridgeBody(s, USER2, amount, token.localDomain))))
               /\ r.ret = After(Cur, r).mailbox.latestDispatchedId

(***************************************************************************)
(* SpecBridge: the mint side of bridging.  The token is deployed with the  *)
(* router contract, or with another name, as its router; the router owner  *)
(* registers tokens; relayers process through the router and directly.     *)
(***************************************************************************)
\* a well-formed payload naming another origin domain
BODY_FAR == <<"u", "s", "e", "r", "1", "|", "u", "s", "e", "r", "2", "|", "1", "|", "7">>

\* the same payload as a relayer may also spell it: blanks around the amount
\* and digits of the origin domain grouped by an underscore
BODY_PADDED == <<"u", "s", "e", "r", "1", "|", "u", "s", "e", "r", "2", "|", " ", "1", " ", "|", "1", "_", "0">>

\* a second identifier relayers may name
OTHER_ID == <<"b", "e", "e", "f">>

BridgeIds == {FOREIGN_ID, OTHER_ID}

Relayers == {SYS, USER1}

NextBridge ==
    \/ SetTokenForDomainTx({SYS, USER1}, {1, 2}, {TOKEN, EmptyStr})
    \/ RouterProcessTx(Relayers, Heights, {BODY_OK, BODY_FAR, BODY_PADDED, BODY_SHORT}, BridgeIds)
    \/ ProcessTx({USER2}, Heights, {BODY_TEXT}, BridgeIds)

SpecBridge == InitBridge /\ [][NextBridge]_vars

\* a token is registered for the router's own domain and names the router
\* contract as its router
BridgeReady(S) == GetTokenForDomain(S, S.router.localDomain) = TOKEN /\ S.token.routerName = ROUTER

\* C15: mint side of bridging.  With a token registered for the router's own
\* domain whose configured router is the router, a successful
\* router.process(body, id) with body 'user1|user2|1|origin' on an
\* undelivered id raises user2's balance by exactly 1, changes no other
\* balance and leaves delivered(id) true, whatever origin the body names.
C15_MintSide ==
    \A c \in Relayers, h \in Heights, body \in {BODY_OK, BODY_FAR}, id \in BridgeIds :
        LET r == RouterProcess(Cur, c, h, body, id)
        IN (BridgeReady(Cur) /\ ~Delivered(Cur, id) /\ r.err = NoErr) =>
               /\ BalanceOf(After(Cur, r), USER2) = BalanceOf(Cur, USER2) + 1
               /\ ChangedEntries(Cur, After(Cur, r)) = {<<USER2>>}
               /\ Delivered(After(Cur, r), id)

\* C16: a failed router.process leaves nothing behind.  On an undelivered
\* id, router.process fails when the body has not four fields, when no
\* token is registered for the router's domain, and when the token rejects
\* the router; after the failure no balance has changed and the id is still
\* undelivered, and a process call for it with a valid body succeeds once
\* the bridge is set up.
C16_FailedRouterProcess ==
    \A c \in Relayers, h \in Heights, id \in BridgeIds :
        LET short == RouterProcess(Cur, c, h, BODY_SHORT, id)
            whole == RouterProcess(Cur, c, h, BODY_OK, id)
        IN (~Delivered(Cur, id)) =>
               /\ short.err = "Invalid message format."
               /\ (GetTokenForDomain(Cur, router.localDomain) = EmptyStr) => (whole.err = "No InterchainToken configured for this domain.")
               /\ (GetTokenForDomain(Cur, router.localDomain) = TOKEN /\ token.routerName # ROUTER) => (whole.err = OnlyRouterMsg)
               /\ \A r \in {short, whole} :
                      (r.err # NoErr) =>
                          /\ After(Cur, r).token.balances = token.balances
                          /\ ~Delivered(After(Cur, r), id)
                          /\ Delivery(After(Cur, r), id) = Delivery(Cur, id)
                          /\ BridgeReady(Cur) => (RouterProcess(After(Cur, r), c, h, BODY_OK, id).err = NoErr)

\* C16 witness: the token is registered but rejects the router; one id was
\* delivered directly, and a routed process of the other fails after the
\* Mailbox step has written.
C16_Witness ==
    /\ GetTokenForDomain(Cur, router.localDomain) = TOKEN
    /\ token.routerName = ROUTER1
    /\ Delivered(Cur, FOREIGN_ID)
    /\ ~Delivered(Cur, OTHER_ID)
    /\ RouterProcess(Cur, SYS, MaxHeight, BODY_OK, OTHER_ID).err = OnlyRouterMsg
    /\ RouterProcess(Cur, SYS, MaxHeight, BODY_OK, OTHER_ID).st # Cur
    /\ RouterProcess(Cur, SYS, MaxHeight, BODY_SHORT, OTHER_ID).st # Cur

\* C18: delivery queries agree.  For every id, delivered(id) is true exactly
\* when processedAt(id) > 0 and exactly when processor(id) is not None.
C18_DeliveryQueriesAgree ==
    \A id \in AnyIds :
        /\ Delivered(Cur, id) <=> (ProcessedAt(Cur, id) > 0)
        /\ Delivered(Cur, id) <=> (Processor(Cur, id) # None)

(***************************************************************************)
(* Properties of the message identifier (checked under SpecDispatch).      *)
(***************************************************************************)
\* recipients and bodies with and without the separator '-' in them
DashRecipients == {<<"r">>, <<"r", "-", "b">>}

DashBodies == {<<"c">>, <<"b", "-", "c">>}

\* the messages build_message makes in the current state from such fields
DashMessages == {BuildMessage(Cur, mailbox.localDomain, sender, destination_domain, recipient, body) : sender \in {USER1, USER2}, destination_domain \in {1, 2}, recipient \in DashRecipients, body \in DashBodies}

\* C19: identifier encoding is injective.  Any two messages that differ in
\* at least one of the seven fields, fields containing '-' included, have
\* different canonical strings and different identifiers.
C19_EncodingInjective ==
    \A m1, m2 \in DashMessages :
        (m1 # m2) =>
            /\ MessageString(m1) # MessageString(m2)
            /\ GenerateMessageId(m1) # GenerateMessageId(m2)

(***************************************************************************)
(* Further properties of the token ledger (checked under SpecToken).       *)
(***************************************************************************)
\* C21: the burn-accounting balance only accumulates burns.  Over every
\* step, balanceOf('BRIDGE_BURNED') does not decrease, and it changes only
\* by a successful burn, by that burn's amount.
C21_BurnedOnlyAccumulates ==
    [][/\ BalanceOf(CurNext, BRIDGE_BURNED) >= BalanceOf(Cur, BRIDGE_BURNED)
       /\ (BalanceOf(CurNext, BRIDGE_BURNED) # BalanceOf(Cur, BRIDGE_BURNED)) =>
              (\E c \in Users, amount \in AnyAmounts :
                  /\ Burn(Cur, c, amount).err = NoErr
                  /\ CurNext = After(Cur, Burn(Cur, c, amount))
                  /\ BalanceOf(CurNext, BRIDGE_BURNED) = BalanceOf(Cur, BRIDGE_BURNED) + amount)]_vars

\* C22 as stated: transfer fails with no write when amount <= 0 or the
\* caller's balance is below amount; transfer_from fails with no write when
\* amount <= 0, the allowance is below amount or main_account's balance is
\* below amount; a successful transfer_from lowers the allowance and
\* main_account's balance by exactly amount and raises to's balance by
\* exactly amount.
C22_TransfersAtomic ==
    \A c \in Users, amount \in AnyAmounts, to \in Users, main \in Users :
        LET t == Transfer(Cur, c, amount, to)
            f == TransferFrom(Cur, c, amount, to, main)
        IN /\ (amount <= 0 \/ BalanceOf(Cur, c) < amount) => (t.err # NoErr /\ t.st = Cur)
           /\ (amount <= 0 \/ Allowance(Cur, main, c) < amount \/ BalanceOf(Cur, main) < amount) => (f.err # NoErr /\ f.st = Cur)
           /\ (f.err = NoErr) =>
                  /\ Allowance(After(Cur, f), main, c) = Allowance(Cur, main, c) - amount
                  /\ BalanceOf(After(Cur, f), main) = BalanceOf(Cur, main) - amount
                  /\ BalanceOf(After(Cur, f), to) = BalanceOf(Cur, to) + amount

\* C22 amended: as above, but a successful transfer_from whose recipient is
\* main_account itself lowers the allowance by amount and leaves
\* main_account's balance as it was; no other entry changes.
C22_TransfersAtomicOrSelf ==
    \A c \in Users, amount \in AnyAmounts, to \in Users, main \in Users :
        LET t == Transfer(Cur, c, amount, to)
            f == TransferFrom(Cur, c, amount, to, main)
        IN /\ (amount <= 0 \/ BalanceOf(Cur, c) < amount) => (t.err # NoErr /\ t.st = Cur)
           /\ (amount <= 0 \/ Allowance(Cur, main, c) < amount \/ BalanceOf(Cur, main) < amount) => (f.err # NoErr /\ f.st = Cur)
           /\ (f.err = NoErr) =>
                  /\ Allowance(After(Cur, f), main, c) = Allowance(Cur, main, c) - amount
                  /\ (to # main) =>
                         /\ BalanceOf(After(Cur, f), main) = BalanceOf(Cur, main) - amount
                         /\ BalanceOf(After(Cur, f), to) = BalanceOf(Cur, to) + amount
                  /\ (to = main) => (BalanceOf(After(Cur, f), main) = BalanceOf(Cur, main))
                  /\ ChangedEntries(Cur, After(Cur, f)) \subseteq {<<main, c>>, <<main>>, <<to>>}

\* C22 witness: USER2 has spent part of USER1's allowance in favour of the
\* owner, and USER1 has nothing left to cover the rest.
C22_Witness ==
    /\ BalanceOf(Cur, SYS) > 0
    /\ Allowance(Cur, USER1, USER2) = 1
    /\ BalanceOf(Cur, USER1) = 0
    /\ BalanceOf(Cur, USER2) > 0

\* C23: approve accumulates.  approve(amount, to) with amount > 0 adds
\* amount to the caller's allowance for to and returns the new total, so two
\* approvals a and b in a row leave the allowance a + b above where it was;
\* with amount <= 0 it fails and writes nothing.
C23_ApproveAccumulates ==
    \A c \in Users, to \in Users, a \in AnyAmounts, b \in AnyAmounts :
        LET r1 == Approve(Cur, c, a, to)
            S1 == After(Cur, r1)
            r2 == Approve(S1, c, b, to)
        IN /\ (a > 0) =>
                 /\ r1.err = NoErr
                 /\ Allowance(S1, c, to) = Allowance(Cur, c, to) + a
                 /\ r1.ret = PyInt(Allowance(Cur, c, to) + a)
                 /\ ChangedEntries(Cur, S1) = {<<c, to>>}
                 /\ (b > 0) =>
                        /\ r2.err = NoErr
                        /\ Allowance(After(S1, r2), c, to) = Allowance(Cur, c, to) + a + b
                        /\ r2.ret = PyInt(Allowance(Cur, c, to) + a + b)
           /\ (a <= 0) => (r1.err # NoErr /\ r1.st = Cur)

\* C23 witness: USER1 has approved USER2 twice and nothing was spent.
C23_Witness ==
    /\ Allowance(Cur, USER1, USER2) = MaxAllowance
    /\ BalanceOf(Cur, USER1) = 2
    /\ BalanceOf(Cur, SYS) = 0

\* The token supply: every account balance, BRIDGE_BURNED included,
\* allowances excluded.
Supply(S) == SumOver([h \in Holders |-> BalanceOf(S, h)], Holders)

\* C27: token supply changes only by minting.  transfer, transfer_from,
\* approve, burn and xTransfer leave the supply as it was, whether they
\* succeed or fail; a successful mint or handleRemoteMint changes it by
\* exactly its amount and a failed one leaves it.
C27_SupplyOnlyByMint ==
    LET now == Supply(Cur)
    IN /\ \A c \in Users, to \in Users, amount \in AnyAmounts :
              /\ Supply(After(Cur, Transfer(Cur, c, amount, to))) = now
              /\ Supply(After(Cur, Approve(Cur, c, amount, to))) = now
              /\ Supply(After(Cur, XTransfer(Cur, c, REMOTE_DOMAIN, to, amount))) = now
              /\ \A main \in Users : Supply(After(Cur, TransferFrom(Cur, c, amount, to, main))) = now
       /\ \A c \in Users, amount \in AnyAmounts : Supply(After(Cur, Burn(Cur, c, amount))) = now
       /\ \A r \in Minters, to \in Users, amount \in AnyAmounts :
              LET m == Mint(Cur, r, to, amount)
                  h == HandleRemoteMint(Cur, r, USER1, to, amount)
              IN /\ Supply(After(Cur, m)) = (IF m.err = NoErr THEN now + amount ELSE now)
                 /\ Supply(After(Cur, h)) = (IF h.err = NoErr THEN now + amount ELSE now)

\* C27 witness: tokens were minted, moved to the owner and burned, and the
\* supply stands at the genesis amount plus the one mint.
C27_Witness ==
    /\ Supply(Cur) = 3
    /\ BalanceOf(Cur, SYS) > 0
    /\ BalanceOf(Cur, BRIDGE_BURNED) > 0
    /\ BalanceOf(Cur, USER2) > 0

(***************************************************************************)
(* The router's registry (checked under SpecBridge).                       *)
(***************************************************************************)
RegistryDomains == {1, 2, 3}

RegistryNames == {TOKEN, ROUTER1, EmptyStr}

\* C24: router registry is owner-only.  setTokenForDomain by anyone but the
\* router's owner fails and writes nothing; by the owner it succeeds and
\* changes the entry of the given domain and nothing else, after which
\* getTokenForDomain returns the name just set; a domain never set reads as
\* the empty string, and router.process leaves the registry as it was.
C24_RegistryOwnerOnly ==
    /\ \A c \in Users, d \in RegistryDomains, name \in RegistryNames :
          LET r == SetTokenForDomain(Cur, c, d, name)
              T == After(Cur, r)
          IN /\ (c # Cur.router.owner) => (r.err = OwnerOnlyMsg /\ r.st = Cur /\ T = Cur)
             /\ (c = Cur.router.owner) =>
                    /\ r.err = NoErr
                    /\ GetTokenForDomain(T, d) = name
                    /\ \A e \in RegistryDomains \ {d} : GetTokenForDomain(T, e) = GetTokenForDomain(Cur, e)
                    /\ T = [Cur EXCEPT !.router.tokensByDomain = T.router.tokensByDomain]
    /\ \A d \in RegistryDomains \ DOMAIN Cur.router.tokensByDomain : GetTokenForDomain(Cur, d) = EmptyStr
    /\ \A c \in Relayers, h \in Heights, body \in {BODY_OK, BODY_SHORT}, id \in BridgeIds :
          After(Cur, RouterProcess(Cur, c, h, body, id)).router = Cur.router

\* C24 witness: the owner has registered the token for the router's domain,
\* cleared the entry of another domain, and a mint went through the entry.
C24_Witness ==
    /\ DOMAIN router.tokensByDomain = {1, 2}
    /\ GetTokenForDomain(Cur, 2) = TOKEN
    /\ GetTokenForDomain(Cur, 1) = EmptyStr
    /\ MintCount > 0

(***************************************************************************)
(* SpecRelay: relaying of bridging messages.  The router owner registers   *)
(* the token, user1 holds tokens and calls xTransfer, an account sends a   *)
(* bridging payload to the router through mailbox.dispatch, and relayers   *)
(* process identifiers through the router and directly on the Mailbox.     *)
(***************************************************************************)
InitRelay ==
    /\ mailbox = MailboxSeed(SYS)
    /\ currency = CurrencyGenesis
    /\ \E router_ \in {ROUTER1, ROUTER} : token = TokenGenesis(router_)
    /\ router = RouterSeed(SYS, 2, MAILBOX)
    /\ dispatched = <<>>
    /\ processed = {}
    /\ minted = <<>>

NextRelay ==
    \/ SetTokenForDomainTx({SYS}, {2}, {TOKEN})
    \/ XTransferTx({USER1}, {REMOTE_DOMAIN}, {USER2}, {1})
    \/ DispatchTx({USER1}, {REMOTE_DOMAIN}, {ROUTER}, {BODY_OK})
    \/ ProcessTx({USER2}, Heights, {BODY_OK}, {FOREIGN_ID} \cup DispatchedIds)
    \/ RouterProcessTx(Relayers, Heights, {BODY_OK}, {FOREIGN_ID} \cup DispatchedIds)

SpecRelay == InitRelay /\ [][NextRelay]_vars

\* C25: authenticated minting.  Every identifier the router has minted for
\* was returned by the dispatch of an earlier successful xTransfer (the
\* Mailbox saw the token contract as sender) with the bridging payload the
\* router was given, and the total credited (1 per mint) does not exceed the
\* total burned.
C25_AuthenticatedMinting ==
    /\ \A id \in DOMAIN minted :
          \E k \in 1..Len(dispatched) :
              /\ dispatched[k].message_id = id
              /\ dispatched[k].sender = TOKEN
              /\ dispatched[k].body = BODY_OK
    /\ MintCount <= BalanceOf(Cur, BRIDGE_BURNED)

(***************************************************************************)
(* The Mailbox's view of xTransfer (checked under SpecToken).              *)
(***************************************************************************)
\* C28: whose identity the Mailbox sees in xTransfer.  When a user s with
\* enough tokens calls xTransfer and the token contract can pay whatever fee
\* is due, the call dispatches one message whose sender is the token
\* contract and whose body starts with s; a positive fee is taken from the
\* token contract's ledger balance and from its allowance to the Mailbox,
\* and the user's ledger balance is as before.
C28_MailboxSeesToken ==
    \A s \in {USER1, USER2}, amount \in 1..MaxSupply :
        LET r == XTransfer(Cur, s, REMOTE_DOMAIN, USER2, amount)
            T == After(Cur, r)
            fee == mailbox.dispatchFee
            sent == SelectSeq(r.events, IsDispatchEvent)
        IN (BalanceOf(Cur, s) >= amount /\ (fee <= 0 \/ ~CannotPay(Cur, TOKEN))) =>
               /\ r.err = NoErr
               /\ Len(sent) = 1
               /\ sent[1].sender = TOKEN
               /\ sent[1].message_id = GenerateMessageId(BuildMessage(Cur, mailbox.localDomain, TOKEN, REMOTE_DOMAIN, token.interchainRouter, Join(<<s, USER2, IntToStr(amount), IntToStr(token.localDomain)>>, <<"|">>)))
               /\ CurrencyBalanceOf(T, s) = CurrencyBalanceOf(Cur, s)
               /\ (fee > 0) =>
                      /\ CurrencyBalanceOf(T, TOKEN) = CurrencyBalanceOf(Cur, TOKEN) - fee
                      /\ CurrencyAllowance(T, TOKEN, MAILBOX) = CurrencyAllowance(Cur, TOKEN, MAILBOX) - fee

(***************************************************************************)
(* Dispatch state and delivery state (checked under Spec).                 *)
(***************************************************************************)
\* C29: dispatch and delivery state are independent.  dispatch leaves every
\* delivery record as it was, so an identifier it returns for which no
\* process call has succeeded is undelivered; Mailbox.process changes
\* nothing but the delivery records (not the nonce, latestDispatchedId, the
\* fee, the owner, the local domain, the ISM or the hooks, nor any other
\* contract); and it succeeds for every undelivered identifier, dispatched
\* or not.
C29_DispatchDeliveryIndependent ==
    /\ \A c \in Users, body \in {BODY_OK, BODY_TEXT} :
          LET r == Dispatch(Cur, c, 1, ROUTER, body)
              T == After(Cur, r)
          IN /\ T.mailbox.deliveries = mailbox.deliveries
             /\ r.st.mailbox.deliveries = mailbox.deliveries
             /\ (r.err = NoErr /\ r.ret[2] \notin processed) => ~Delivered(T, r.ret[2])
    /\ \A c \in Processors, h \in Heights, id \in AnyIds :
          LET r == MailboxProcess(Cur, c, h, BODY_TEXT, id)
              T == After(Cur, r)
          IN /\ T = [Cur EXCEPT !.mailbox.deliveries = T.mailbox.deliveries]
             /\ \A other \in AnyIds \ {id} : Delivery(T, other) = Delivery(Cur, other)
             /\ (~Delivered(Cur, id)) => (r.err = NoErr)

\* C29 witness: two identifiers were dispatched, one of them was delivered
\* and the other was not, and an identifier no dispatch returned was
\* delivered too.
C29_Witness ==
    /\ mailbox.nonce = 2
    /\ Delivered(Cur, FOREIGN_ID)
    /\ \E i \in DispatchedIds : Delivered(Cur, i)
    /\ \E i \in DispatchedIds : ~Delivered(Cur, i) /\ i \notin processed

====
